---------------------------- MODULE Spec2Model ----------------------------
(***************************************************************************)
(* A model of the scripting context utilities:                             *)
(*   - the module lifecycle of dl_utilities.scripting (init/use/run),      *)
(*   - the Weights & Biases context module of deepctx (Wandb and           *)
(*     PersistentObject),                                                  *)
(*   - the lazy module loader (LazyModule),                                *)
(*   - the artifact arguments of the W&B API module (WandbApi).            *)
(* Each part has its own specification over the shared variable list; the  *)
(* variables of the other parts keep their initial values.                 *)
(*                                                                         *)
(* The callbacks of the modules and the job are user code: they return or  *)
(* raise, and a KeyboardInterrupt may reach the main thread wherever it    *)
(* runs user code, parses, polls or joins.  User code does not call init(),*)
(* use() or run() from inside run(); the caller may go on calling them     *)
(* after a call has raised.  The user's create(), load() and save() of a   *)
(* PersistentObject return; create() and load() may return None.           *)
(***************************************************************************)
EXTENDS Integers, Sequences, FiniteSets, TLC

(***************************************************************************)
(* Bounds of the model.                                                    *)
(***************************************************************************)
\* the number of accepted run() calls in one behaviour
MaxRuns == 2
\* the number of PersistentObject instances that are constructed
MaxObjects == 2
\* the number of accesses of the instance property of one PersistentObject
MaxAccesses == 3
\* the number of times the importer of one LazyModule is invoked
MaxImports == 2

(***************************************************************************)
(* Part 1: dl_utilities.scripting                                          *)
(***************************************************************************)
VARIABLES
    state,            \* __state
    modules,          \* __modules, a sequence of module names
    job_thread,       \* __job_thread: 0 is None, otherwise an index of threads
    argument_parser,  \* __argument_parser
    config,           \* __config
    threads,          \* every job thread created so far
    pc,               \* where the main thread is: "top" is outside of run()
    idx,              \* the position of the current loop over __modules
    runParser,        \* run()'s parameter argument_parser
    result,           \* how the last call made from the top level ended
    log,              \* the callbacks invoked by the latest run(), in order,
                      \* kept until the next call of init() or use()
    nruns             \* the number of run() calls accepted so far

scriptVars == <<state, modules, job_thread, argument_parser, config, threads,
                pc, idx, runParser, result, log, nruns>>

\* class State
States == {"Idle", "Running", "Stopping", "Finished"}

\* the scripting modules of the repository (the lazy imports rng, train, wandb)
ModuleNames == {"rng", "train", "wandb"}

\* the NAME attribute of a module, as its rank in string order:
\* "Random Number Generator" < "Training Hyperparameters" < "Weights & Biases"
NAME(m) == CASE m = "rng" -> 1 [] m = "train" -> 2 [] m = "wandb" -> 3

\* the parsers a caller passes; "DefaultArg" is the default value of run()'s
\* parameter and "InitFresh" the parser init() builds when it is given none
UserParsers == {"P1"}

\* how a callback (user code run on the main thread) may end
Outcomes == {"ok", "KeyboardInterrupt", "EarlyStop", "Error"}

\* list.sort(key=lambda m: m.NAME): a stable insertion of m into a sorted list
RECURSIVE SortedInsert(_, _)
SortedInsert(s, m) ==
    IF s = <<>> THEN <<m>>
    ELSE IF NAME(m) < NAME(Head(s)) THEN <<m>> \o s
    ELSE <<Head(s)>> \o SortedInsert(Tail(s), m)

\* is_running()
is_running == state = "Running"

\* config(): the value returned, or the exception raised
config_call == IF config = "None" THEN "Exception: No job is running." ELSE config

\* argument_parser()
argument_parser_call == argument_parser

\* is_using(module)
is_using(m) == \E i \in 1..Len(modules) : modules[i] = m

\* the Namespace that parser.parse_args(argv) returns
ParseArgs(parser) == <<"Namespace", parser>>

ScriptInit ==
    /\ state = "Idle"
    /\ modules = <<>>
    /\ job_thread = 0
    /\ argument_parser = "None"
    /\ config = "None"
    /\ threads = <<>>
    /\ pc = "top"
    /\ idx = 1
    /\ runParser = "None"
    /\ result = "none"
    /\ log = <<>>
    /\ nruns = 0

\* an exception leaves run(): the main thread is back at the top level
Escape(exc) ==
    /\ pc' = "top"
    /\ result' = exc

\* init(argument_parser): the assignments are made before the assertion is
\* evaluated, so a failed assertion leaves them in place
CallInit(p) ==
    /\ pc = "top"
    /\ argument_parser' = IF p = "None" THEN "InitFresh" ELSE p
    /\ state' = "Idle"
    /\ modules' = <<>>
    /\ config' = "None"
    /\ result' = IF job_thread = 0 THEN "ok" ELSE "AssertionError"
    /\ log' = <<>>
    /\ UNCHANGED <<job_thread, threads, pc, idx, runParser, nruns>>

\* use(module)
CallUse(m) ==
    /\ pc = "top"
    /\ IF is_using(m)
       THEN /\ result' = "AssertionError"
            /\ UNCHANGED modules
       ELSE /\ modules' = SortedInsert(modules, m)
            /\ result' = "ok"
    /\ log' = <<>>
    /\ UNCHANGED <<state, job_thread, argument_parser, config, threads, pc, idx,
                   runParser, nruns>>

\* a guard that only refuses a job that has finished
RunAllowedUnlessFinished(s) == s # "Finished"

\* run(): the guard of line 110
RunAllowed(s) == s = "Idle"

\* run(job, argument_parser): entry, up to the call of __define_arguments
CallRun(p) ==
    /\ pc = "top"
    /\ IF RunAllowed(state)
       THEN /\ nruns < MaxRuns
            /\ state' = "Running"
            /\ pc' = "define"
            /\ idx' = 1
            /\ runParser' = p
            /\ result' = "running"
            /\ log' = <<>>
            /\ nruns' = nruns + 1
       ELSE /\ result' = "Exception: A job can only be run once."
            /\ UNCHANGED <<state, pc, idx, runParser, log, nruns>>
    /\ UNCHANGED <<modules, job_thread, argument_parser, config, threads>>

Event(ph, m, out) == [ph |-> ph, m |-> m, out |-> out]

\* One iteration of a loop `for module in __modules` of the phases that check
\* the state (__define_arguments, __init, __start).  caught says whether the
\* loop runs inside the try block of run().
GuardedLoopStep(ph, next, caught) ==
    /\ pc = ph
    /\ IF idx > Len(modules)
       THEN /\ pc' = next
            /\ idx' = 1
            /\ UNCHANGED <<result, log>>
       ELSE IF state # "Running"
       THEN /\ log' = Append(log, Event(ph, modules[idx], "EarlyStop"))
            /\ IF caught
               THEN pc' = "setstop" /\ UNCHANGED <<idx, result>>
               ELSE Escape("EarlyStop") /\ UNCHANGED idx
       ELSE \E out \in Outcomes :
            /\ log' = Append(log, Event(ph, modules[idx], out))
            /\ IF out = "ok"
               THEN /\ idx' = idx + 1
                    /\ UNCHANGED <<pc, result>>
               ELSE IF caught /\ out \in {"KeyboardInterrupt", "EarlyStop"}
               THEN pc' = "setstop" /\ UNCHANGED <<idx, result>>
               ELSE Escape(out) /\ UNCHANGED idx
    /\ UNCHANGED <<state, modules, job_thread, argument_parser, config, threads,
                   runParser, nruns>>

\* __define_arguments(argument_parser), called before the try block
DefineArguments == GuardedLoopStep("define", "parse", FALSE)

\* __config = argument_parser.parse_args(argv); parse_args exits on bad arguments
ParseConfig ==
    /\ pc = "parse"
    /\ \E out \in {"ok", "KeyboardInterrupt", "Error"} :
         IF out = "ok"
         THEN /\ config' = ParseArgs(runParser)
              /\ pc' = "init"
              /\ UNCHANGED result
         ELSE /\ Escape(out)
              /\ UNCHANGED config
    /\ UNCHANGED <<state, modules, job_thread, argument_parser, threads, idx,
                   runParser, log, nruns>>

\* __init called outside of the try block
InitModulesUncaught == GuardedLoopStep("init", "start", FALSE)

\* __init(__config)
InitModules == GuardedLoopStep("init", "start", TRUE)

\* a run() that goes from the init phase to the job without __start
StartModulesSkipped ==
    /\ pc = "start"
    /\ pc' = "spawn"
    /\ idx' = 1
    /\ UNCHANGED <<state, modules, job_thread, argument_parser, config, threads,
                   runParser, result, log, nruns>>

\* __start(__config)
StartModules == GuardedLoopStep("start", "spawn", TRUE)

\* a job thread: alive until the job returns or raises
Thread(arg, run) == [alive |-> TRUE, arg |-> arg, run |-> run, outcome |-> "none"]

is_alive(t) == threads[t].alive

\* __run(job, __config), lines 167-168: the thread is created and started
SpawnJob ==
    /\ pc = "spawn"
    /\ threads' = Append(threads, Thread(config, nruns))
    /\ job_thread' = Len(threads) + 1
    /\ log' = Append(log, Event("job", "job", "invoked"))
    /\ pc' = "poll"
    /\ UNCHANGED <<state, modules, argument_parser, config, idx, runParser,
                   result, nruns>>

\* the condition of the polling loop of __run, line 169
PollAgain == is_alive(job_thread) /\ state = "Running"

\* a polling loop that raises the exception of the job on the main thread
PollJobReraises ==
    /\ pc = "poll"
    /\ \/ /\ PollAgain
          /\ UNCHANGED <<pc, log, result>>
       \/ /\ ~PollAgain
          /\ threads[job_thread].outcome = "raised"
          /\ Escape("Error")
          /\ UNCHANGED log
       \/ /\ ~PollAgain
          /\ threads[job_thread].outcome # "raised"
          /\ pc' = "setstop"
          /\ UNCHANGED <<log, result>>
       \/ /\ log' = Append(log, Event("poll", "job", "KeyboardInterrupt"))
          /\ pc' = "setstop"
          /\ UNCHANGED result
    /\ UNCHANGED <<state, modules, job_thread, argument_parser, config, threads,
                   idx, runParser, nruns>>

\* __run, lines 169-170: one evaluation of the loop condition, or a
\* KeyboardInterrupt delivered to the main thread while it polls
PollJob ==
    /\ pc = "poll"
    /\ \/ /\ PollAgain
          /\ UNCHANGED <<pc, log>>
       \/ /\ ~PollAgain
          /\ pc' = "setstop"
          /\ UNCHANGED log
       \/ /\ log' = Append(log, Event("poll", "job", "KeyboardInterrupt"))
          /\ pc' = "setstop"
    /\ UNCHANGED <<state, modules, job_thread, argument_parser, config, threads,
                   idx, runParser, result, nruns>>

\* a run() that enters the stop phase without leaving the state Running
SetStoppingKeepsRunning ==
    /\ pc = "setstop"
    /\ pc' = "join"
    /\ UNCHANGED <<state, modules, job_thread, argument_parser, config, threads,
                   idx, runParser, result, log, nruns>>

\* run(), line 123, reached from the try block or from one of its handlers
SetStopping ==
    /\ pc = "setstop"
    /\ state' = "Stopping"
    /\ pc' = "join"
    /\ UNCHANGED <<modules, job_thread, argument_parser, config, threads, idx,
                   runParser, result, log, nruns>>

\* a __stop that does not wait for the thread
MustJoinNever(t) == FALSE

\* __stop, line 178: whether there is a thread to wait for
MustJoin(t) == t # 0

\* __stop, lines 178-180: join() returns once the thread is dead; a
\* KeyboardInterrupt delivered while join() blocks leaves run()
JoinJob ==
    /\ pc = "join"
    /\ IF MustJoin(job_thread)
       THEN \/ /\ ~is_alive(job_thread)
               /\ job_thread' = 0
               /\ pc' = "stop"
               /\ idx' = 1
               /\ UNCHANGED <<result, log>>
            \/ /\ is_alive(job_thread)
               /\ log' = Append(log, Event("join", "job", "KeyboardInterrupt"))
               /\ Escape("KeyboardInterrupt")
               /\ UNCHANGED <<job_thread, idx>>
       ELSE /\ pc' = "stop"
            /\ idx' = 1
            /\ UNCHANGED <<job_thread, result, log>>
    /\ UNCHANGED <<state, modules, argument_parser, config, threads, runParser,
                   nruns>>

\* One iteration of a loop `for module in __modules` of __stop or __finish:
\* these run after the try block, so every exception leaves run()
PlainLoopStep(ph, next) ==
    /\ pc = ph
    /\ IF idx > Len(modules)
       THEN /\ pc' = next
            /\ idx' = 1
            /\ UNCHANGED <<result, log>>
       ELSE \E out \in Outcomes :
            /\ log' = Append(log, Event(ph, modules[idx], out))
            /\ IF out = "ok"
               THEN /\ idx' = idx + 1
                    /\ UNCHANGED <<pc, result>>
               ELSE Escape(out) /\ UNCHANGED idx
    /\ UNCHANGED <<state, modules, job_thread, argument_parser, config, threads,
                   runParser, nruns>>

\* __stop, lines 181-182
StopModules == PlainLoopStep("stop", "finish")

\* __finish
FinishModules == PlainLoopStep("finish", "setfinished")

\* run(), line 126, and the return of run()
SetFinished ==
    /\ pc = "setfinished"
    /\ state' = "Finished"
    /\ pc' = "top"
    /\ result' = "finished"
    /\ UNCHANGED <<modules, job_thread, argument_parser, config, threads, idx,
                   runParser, log, nruns>>

\* the job returns or raises on its thread, which then is no longer alive;
\* the log records it for the thread of the latest run
JobEnds(t) ==
    /\ is_alive(t)
    /\ \E out \in {"returned", "raised"} :
         /\ threads' = [threads EXCEPT ![t].alive = FALSE, ![t].outcome = out]
         /\ log' = IF threads[t].run = nruns
                   THEN Append(log, Event("job", "job", out))
                   ELSE log
    /\ UNCHANGED <<state, modules, job_thread, argument_parser, config, pc, idx,
                   runParser, result, nruns>>

(***************************************************************************)
(* Part 2: deepctx.scripting.module.wandb_module (Wandb, PersistentObject) *)
(***************************************************************************)
VARIABLES
    _api_only,            \* Wandb._api_only
    _can_resume,          \* Wandb._can_resume
    _is_resumeable,       \* Wandb._is_resumeable, an attribute set by resumeable()
    _defaults,            \* Wandb._defaults
    _run,                 \* Wandb._run
    _persistent_objects,  \* Wandb._persistent_objects
    wargs,                \* the --wandb-* arguments registered on the parser
    wconfig,              \* context.config, the parsed arguments
    environ,              \* os.environ
    wphase,               \* the lifecycle phase the context has reached
    wlog,                 \* what _stop did, in order
    wresult,              \* what the last call on the module returned or raised
    lastFlag              \* the argument of the latest resumeable() that returned

wandbVars == <<_api_only, _can_resume, _is_resumeable, _defaults, _run,
               _persistent_objects, wargs, wconfig, environ, wphase, wlog,
               wresult, lastFlag>>

\* Python's None and a value that is not None
None == [some |-> FALSE, v |-> <<>>]
Some(x) == [some |-> TRUE, v |-> x]

\* how a call ended: the value returned, or the exception raised
Returned(x) == [raised |-> "", value |-> x]
Raised(e) == [raised |-> e, value |-> None]

\* the return value of the configuration methods
Self == Some(<<"self">>)

\* the run parameters that _create_wandb_run resolves with parameter()
ParamKeys == {"wandb_project", "wandb_name", "wandb_entity", "wandb_group",
              "wandb_tags", "wandb_notes", "wandb_dir"}

\* key.upper()
Upper(k) ==
    CASE k = "wandb_project" -> "WANDB_PROJECT"
      [] k = "wandb_name" -> "WANDB_NAME"
      [] k = "wandb_entity" -> "WANDB_ENTITY"
      [] k = "wandb_group" -> "WANDB_GROUP"
      [] k = "wandb_tags" -> "WANDB_TAGS"
      [] k = "wandb_notes" -> "WANDB_NOTES"
      [] k = "wandb_dir" -> "WANDB_DIR"

EnvNames == {Upper(k) : k \in ParamKeys}

\* str.split(','): a string is a sequence of characters
RECURSIVE SplitFrom(_, _)
SplitFrom(str, cur) ==
    IF str = <<>> THEN <<cur>>
    ELSE IF Head(str) = "," THEN <<cur>> \o SplitFrom(Tail(str), <<>>)
    ELSE SplitFrom(Tail(str), Append(cur, Head(str)))

Split(str) == SplitFrom(str, <<>>)

\* which of the keys a source (command line, environment, defaults()) gives
Profiles == {"none", "some", "other", "all"}

Gives(profile, k) ==
    CASE profile = "none" -> FALSE
      [] profile = "all" -> TRUE
      [] profile = "some" -> k \in {"wandb_project", "wandb_tags", "wandb_dir"}
      [] profile = "other" -> k \in {"wandb_name", "wandb_tags", "wandb_notes"}

\* the strings given on the command line, before argparse converts them
CliString(k) == IF k = "wandb_tags" THEN <<"a", ",", "b">> ELSE <<"c", k>>

\* the type= conversion of the argument, lines 425-431
ArgType(k, str) == IF k = "wandb_tags" THEN Split(str) ELSE str

\* the values of the environment variables; one profile sets empty strings
EnvString(profile, k) ==
    IF profile = "some" /\ k # "wandb_project" THEN <<>>
    ELSE IF k = "wandb_tags" THEN <<"x", ",", "y">> ELSE <<"e", k>>

\* the values passed to defaults()
DefaultValue(k) == IF k = "wandb_tags" THEN <<<<"t">>>> ELSE <<"d", k>>

\* the initial _defaults, lines 248-257
NoDefaults == [k \in ParamKeys |-> None]

\* a PersistentObject after __init__, lines 44-50, with counters of the calls
\* of the user's create(), load() and save() and of the accesses of instance
NewPersistentObject ==
    [_instance |-> None, _state |-> "Idle",
     accesses |-> 0, creates |-> 0, loads |-> 0, saves |-> 0]

WandbInit ==
    /\ _api_only = FALSE
    /\ _can_resume = FALSE
    /\ _is_resumeable = None
    /\ _defaults = NoDefaults
    /\ _run = None
    /\ _persistent_objects = <<>>
    /\ wargs = {}
    /\ wconfig = <<>>
    /\ \E profile \in Profiles :
         environ = [n \in {Upper(k) : k \in {j \in ParamKeys : Gives(profile, j)}}
                    |-> EnvString(profile, CHOOSE k \in ParamKeys : Upper(k) = n)]
    /\ wphase = "configure"
    /\ wlog = <<>>
    /\ wresult = Returned(None)
    /\ lastFlag = None

\* the order in which the context calls the lifecycle methods of a module
LifecycleNext(ph) ==
    CASE ph = "configure" -> "defined"
      [] ph = "defined" -> "parsed"
      [] ph = "parsed" -> "started"
      [] ph = "started" -> "stopped"

\* can_resume
can_resume == _can_resume

\* api_only(api_only)
ApiOnly(flag) ==
    /\ wphase = "configure"
    /\ _api_only' = flag
    /\ wresult' = Returned(Self)
    /\ UNCHANGED <<_can_resume, _is_resumeable, _defaults, _run,
                   _persistent_objects, wargs, wconfig, environ, wphase, wlog,
                   lastFlag>>

\* defaults(project=..., name=..., ...): every key is assigned, None if not given
Defaults(profile) ==
    /\ wphase = "configure"
    /\ _defaults' = [k \in ParamKeys |->
                        IF Gives(profile, k) THEN Some(DefaultValue(k)) ELSE None]
    /\ wresult' = Returned(Self)
    /\ UNCHANGED <<_api_only, _can_resume, _is_resumeable, _run,
                   _persistent_objects, wargs, wconfig, environ, wphase, wlog,
                   lastFlag>>

\* resumeable(resumeable)
Resumeable(flag) ==
    /\ wphase = "configure"
    /\ IF _api_only
       THEN /\ wresult' = Raised("RuntimeError")
            /\ UNCHANGED <<_is_resumeable, lastFlag>>
       ELSE /\ _is_resumeable' = Some(flag)
            /\ lastFlag' = Some(flag)
            /\ wresult' = Returned(Self)
    /\ UNCHANGED <<_api_only, _can_resume, _defaults, _run, _persistent_objects,
                   wargs, wconfig, environ, wphase, wlog>>

\* the dest names of the arguments that _define_arguments registers
RegisteredArguments ==
    IF _api_only THEN {}
    ELSE ParamKeys \cup {"wandb_save_code", "wandb_mode"}
         \cup (IF can_resume THEN {"wandb_resume"} ELSE {})

\* _define_arguments()
WandbDefineArguments ==
    /\ wphase = "configure"
    /\ wargs' = RegisteredArguments
    /\ wphase' = LifecycleNext(wphase)
    /\ wresult' = Returned(None)
    /\ UNCHANGED <<_api_only, _can_resume, _is_resumeable, _defaults, _run,
                   _persistent_objects, wconfig, environ, wlog, lastFlag>>

\* parse_args: an attribute for every registered argument, its default (None,
\* or "online" for --wandb-mode) when it is not given on the command line
WandbParseArgs(profile, resume) ==
    /\ wphase = "defined"
    /\ wconfig' = [k \in wargs |->
            IF k \in ParamKeys
            THEN IF Gives(profile, k) THEN Some(ArgType(k, CliString(k))) ELSE None
            ELSE IF k = "wandb_resume"
            THEN IF resume THEN Some(<<"id">>) ELSE None
            ELSE IF k = "wandb_mode" THEN Some(<<"online">>)
            ELSE None]
    /\ wphase' = LifecycleNext(wphase)
    /\ wresult' = Returned(None)
    /\ UNCHANGED <<_api_only, _can_resume, _is_resumeable, _defaults, _run,
                   _persistent_objects, wargs, environ, wlog, lastFlag>>

\* the parse argument of parameter(): identity, or split(',') for the tags
Parse(k, str) == IF k = "wandb_tags" THEN Split(str) ELSE str

\* a parameter() that looks at the environment before the command line
parameterEnvironFirst(k) ==
    IF Upper(k) \in DOMAIN environ THEN Some(Parse(k, environ[Upper(k)]))
    ELSE IF wconfig[k].some THEN wconfig[k]
    ELSE _defaults[k]

\* parameter(key, parse), lines 457-462
parameter(k) ==
    IF wconfig[k].some THEN wconfig[k]
    ELSE IF Upper(k) \in DOMAIN environ THEN Some(Parse(k, environ[Upper(k)]))
    ELSE _defaults[k]

\* whether the run is resumed, lines 450-454
MustResume == can_resume /\ wconfig["wandb_resume"].some

\* wandb.init(...), lines 466-484: the run it returns; whether the service
\* reports the run as resumed is for the service to say
WandbRun(resumed) ==
    [id |-> IF MustResume THEN wconfig["wandb_resume"] ELSE None,
     resume |-> IF MustResume THEN "must" ELSE "never",
     params |-> [k \in ParamKeys |-> parameter(k)],
     resumed |-> resumed,
     finished |-> FALSE]

\* _start(), with _create_wandb_run()
WandbStart ==
    /\ wphase = "parsed"
    /\ IF _api_only
       THEN UNCHANGED _run
       ELSE \E resumed \in BOOLEAN : _run' = Some(WandbRun(resumed))
    /\ wphase' = LifecycleNext(wphase)
    /\ wresult' = Returned(None)
    /\ UNCHANGED <<_api_only, _can_resume, _is_resumeable, _defaults,
                   _persistent_objects, wargs, wconfig, environ, wlog, lastFlag>>

\* PersistentObject(): __init__ registers the object with the module
CreatePersistentObject ==
    /\ wphase \in {"parsed", "started"}
    /\ Len(_persistent_objects) < MaxObjects
    /\ _persistent_objects' = Append(_persistent_objects, NewPersistentObject)
    /\ wresult' = Returned(None)
    /\ UNCHANGED <<_api_only, _can_resume, _is_resumeable, _defaults, _run,
                   wargs, wconfig, environ, wphase, wlog, lastFlag>>

\* an instance property that creates or loads at every access
IsCachedNever(o) == FALSE

\* instance, line 71: whether the object holds an instance
IsCached(o) == o._instance # None

\* the object that the n-th call of the user's create() or load() returns
Instance(kind, i, n) == Some(<<kind, i, n>>)

\* _do(operation, state), lines 78-82: the state during the operation and after
\* it, and the result of the operation
Do(o, res) == [o EXCEPT !._state = "Idle", !._instance = res]

\* PersistentObject.instance, lines 66-76, with _create and _load; the run
\* property raises if the module is API only or has no run; returnsObject says
\* whether the user's create() or load() returns an object or None
AccessInstance(i, returnsObject) ==
    /\ wphase \in {"parsed", "started"}
    /\ LET o == _persistent_objects[i]
           n == o.creates + o.loads + 1
       IN
       IF IsCached(o)
       THEN /\ returnsObject
            /\ o.accesses < MaxAccesses
            /\ _persistent_objects' =
                   [_persistent_objects EXCEPT ![i].accesses = @ + 1]
            /\ wresult' = Returned(o._instance)
       ELSE IF _api_only
       THEN /\ returnsObject
            /\ wresult' = Raised("RuntimeError")
            /\ UNCHANGED _persistent_objects
       ELSE IF _run = None
       THEN /\ returnsObject
            /\ wresult' = Raised("AssertionError")
            /\ UNCHANGED _persistent_objects
       ELSE /\ o.accesses < MaxAccesses
            /\ LET kind == IF _run.v.resumed THEN "loaded" ELSE "created"
                   res == IF returnsObject THEN Instance(kind, i, n) ELSE None
                   called == IF _run.v.resumed
                             THEN [o EXCEPT !.loads = @ + 1, !.accesses = @ + 1]
                             ELSE [o EXCEPT !.creates = @ + 1, !.accesses = @ + 1]
               IN /\ _persistent_objects' =
                         [_persistent_objects EXCEPT ![i] = Do(called, res)]
                  /\ wresult' = Returned(res)
    /\ UNCHANGED <<_api_only, _can_resume, _is_resumeable, _defaults, _run,
                   wargs, wconfig, environ, wphase, wlog, lastFlag>>

\* a _save that calls save() without looking at the instance
ShouldSaveAlways(o) == TRUE

\* _save, line 93: save() is called only for an object that holds an instance
ShouldSave(o) == o._instance # None

\* the loop of _stop, lines 489-490: the calls of save(), in order
RECURSIVE SaveEvents(_, _)
SaveEvents(objs, i) ==
    IF i > Len(objs) THEN <<>>
    ELSE (IF ShouldSave(objs[i]) THEN <<<<"save", i>>>> ELSE <<>>)
         \o SaveEvents(objs, i + 1)

\* _upload_persistent_objects, lines 494-506
UploadEvents == IF _api_only THEN <<>> ELSE <<<<"upload", 0>>>>

\* _stop, lines 489-492: what is done when there is a run
StopEvents ==
    SaveEvents(_persistent_objects, 1) \o UploadEvents \o <<<<"finish", 0>>>>

\* _stop()
WandbStop ==
    /\ wphase = "started"
    /\ IF _run = None
       THEN UNCHANGED <<_run, _persistent_objects, wlog>>
       ELSE /\ wlog' = StopEvents
            /\ _persistent_objects' =
                   [i \in 1..Len(_persistent_objects) |->
                       IF \E j \in 1..Len(StopEvents) : StopEvents[j] = <<"save", i>>
                       THEN [_persistent_objects[i] EXCEPT !.saves = @ + 1]
                       ELSE _persistent_objects[i]]
            /\ _run' = Some([_run.v EXCEPT !.finished = TRUE])
    /\ wphase' = LifecycleNext(wphase)
    /\ wresult' = Returned(None)
    /\ UNCHANGED <<_api_only, _can_resume, _is_resumeable, _defaults, wargs,
                   wconfig, environ, lastFlag>>

\* the run property, lines 273-276: the run, or the exception raised
RunProperty ==
    IF _api_only THEN Raised("RuntimeError")
    ELSE IF _run = None THEN Raised("AssertionError")
    ELSE Returned(_run)

\* user code reads the run property
AccessRun ==
    /\ wresult' = RunProperty
    /\ UNCHANGED <<_api_only, _can_resume, _is_resumeable, _defaults, _run,
                   _persistent_objects, wargs, wconfig, environ, wphase, wlog,
                   lastFlag>>

\* the artifact returned by wandb.Api().artifact() or by Run.use_artifact()
Artifact(by) == Some(<<"artifact", by>>)

\* a use_artifact that goes to the API only for a disabled run
ServedByApiIfDisabled(disabled) == disabled

\* use_artifact, line 321, once its operands are evaluated; disabled is
\* run.disabled, which is read only when the module is not API only
ServedByApi(disabled) == _api_only \/ disabled

\* Wandb.use_artifact(...), lines 321-323, with WandbApi.use_artifact, line 217
UseArtifact(disabled) ==
    /\ wresult' =
          IF ~_api_only /\ RunProperty.raised # "" THEN RunProperty
          ELSE IF ServedByApi(disabled) THEN Returned(Artifact("api"))
          ELSE IF RunProperty.raised # "" THEN RunProperty
          ELSE Returned(Artifact("run"))
    /\ UNCHANGED <<_api_only, _can_resume, _is_resumeable, _defaults, _run,
                   _persistent_objects, wargs, wconfig, environ, wphase, wlog,
                   lastFlag>>

(***************************************************************************)
(* Part 3: dl_utilities.utils.lazyloading (LazyModule)                     *)
(***************************************************************************)
VARIABLES
    lazy,     \* the LazyModule objects: __module and what happened to each
    lresult   \* the latest attribute access and how it ended

lazyVars == <<lazy, lresult>>

\* the lazy modules of the repository
LazyNames == {"tensorflow", "rng", "wandb"}

_lazy_attribute_blacklist ==
    {"_ipython_canary_method_should_not_exist_", "_ipython_display_",
     "_repr_mimebundle_", "_repr_html_", "_repr_markdown_", "_repr_svg_",
     "_repr_png_", "_repr_pdf_", "_repr_jpeg_", "_repr_latex_", "_repr_json_",
     "_repr_javascript_"}

\* the attributes that are looked up: two of the blacklist, one that the
\* imported module has and one that it does not have
Attributes == {"_repr_html_", "_ipython_display_", "NAME", "missing"}

ModuleAttributes == {"NAME"}

\* LazyModule.__init__, lines 28-31, with counters of the invocations of the
\* importer and a flag for an access to an attribute not on the blacklist
NewLazyModule == [module |-> None, imports |-> 0, accessed |-> FALSE]

LazyInit ==
    /\ lazy = [n \in LazyNames |-> NewLazyModule]
    /\ lresult = [name |-> "", attr |-> "", raised |-> "", value |-> None]

\* is_loaded
is_loaded(n) == lazy[n].module # None

\* a __getattr__ without the blacklist
IsBlacklistedNever(attr) == FALSE

\* __getattr__, line 39
IsBlacklisted(attr) == attr \in _lazy_attribute_blacklist

\* getattr(self.__module, attr), line 44
GetModuleAttr(n, attr) ==
    IF attr \in ModuleAttributes
    THEN [name |-> n, attr |-> attr, raised |-> "", value |-> Some(<<n, attr>>)]
    ELSE [name |-> n, attr |-> attr, raised |-> "AttributeError", value |-> None]

\* LazyModule.__getattr__(attr), lines 37-44; importerOk says whether the
\* importer returns the module or raises
GetAttr(n, attr, importerOk) ==
    /\ IF lazy[n].module = None
       THEN IF IsBlacklisted(attr)
            THEN /\ importerOk
                 /\ lresult' = [name |-> n, attr |-> attr,
                                raised |-> "AttributeError", value |-> None]
                 /\ lazy' = [lazy EXCEPT ![n].accessed =
                                @ \/ attr \notin _lazy_attribute_blacklist]
            ELSE /\ lazy[n].imports < MaxImports
                 /\ lazy' = [lazy EXCEPT
                        ![n].imports = @ + 1,
                        ![n].module = IF importerOk THEN Some(n) ELSE None,
                        ![n].accessed = @ \/ attr \notin _lazy_attribute_blacklist]
                 /\ lresult' = IF importerOk
                               THEN GetModuleAttr(n, attr)
                               ELSE [name |-> n, attr |-> attr,
                                     raised |-> "ImportError", value |-> None]
       ELSE /\ importerOk
            /\ lresult' = GetModuleAttr(n, attr)
            /\ lazy' = [lazy EXCEPT ![n].accessed =
                           @ \/ attr \notin _lazy_attribute_blacklist]

(***************************************************************************)
(* Part 4: the artifact arguments of WandbApi                              *)
(***************************************************************************)
VARIABLES
    _config_artifact_arguments,  \* WandbApi._config_artifact_arguments
    _config_artifacts,           \* WandbApi._config_artifacts
    aparser,    \* the artifact arguments on the parser: dest -> default
    aconfig,    \* context.config: dest -> value
    agiven,     \* per registered key, the option given on the command line
    aphase,     \* "configure" until the arguments are parsed, then "parsed"
    aresult     \* the latest call and how it ended

artifactVars == <<_config_artifact_arguments, _config_artifacts, aparser,
                  aconfig, agiven, aphase, aresult>>

\* the names passed to add_artifact_argument and artifact_argument_path, as
\* sequences of characters: "m", "a-b" and "a_b"
ArtifactNames == {<<"m">>, <<"a", "-", "b">>, <<"a", "_", "b">>}

\* name.replace("-", "_")
Replace(s) == [i \in DOMAIN s |-> IF s[i] = "-" THEN "_" ELSE s[i]]

\* f"{name}_artifact" and f"{name}_path"; the suffix is kept as one token
Attr(name, suffix) == name \o <<"_", suffix>>

\* f"--{name}-artifact" and f"--{name}-path"
Option(name, suffix) == <<"-", "-">> \o name \o <<"-", suffix>>

\* str.lstrip("-")
RECURSIVE LStrip(_)
LStrip(s) == IF s # <<>> /\ Head(s) = "-" THEN LStrip(Tail(s)) ELSE s

\* the dest that add_argument derives from an option string
Dest(option) == Replace(LStrip(option))

\* the values on the command line, the default artifact of an argument
CliArtifact == <<"cli-artifact">>
CliPath == <<"cli-path">>
DefaultArtifact == <<"default-artifact">>

\* Path(...)
Path(s) == <<"Path">> \o s

\* artifact.download() of the artifact that use_artifact returns for a name
Download(artifactName) == <<"downloaded">> \o artifactName

\* f with the value v at x
Put(f, x, v) == [y \in DOMAIN f \cup {x} |-> IF y = x THEN v ELSE f[y]]

\* getattr(config, attr)
HasAttr(attr) == attr \in DOMAIN aconfig

ACall(call, name, raised, value) ==
    [call |-> call, name |-> name, raised |-> raised, value |-> value]

ArtifactInit ==
    /\ _config_artifact_arguments = <<>>
    /\ _config_artifacts = <<>>
    /\ aparser = <<>>
    /\ aconfig = <<>>
    /\ agiven = <<>>
    /\ aphase = "configure"
    /\ aresult = ACall("", <<>>, "", None)

\* add_artifact_argument(name, default=...), lines 170-182
AddArtifactArgument(name, default) ==
    /\ aphase = "configure"
    /\ LET key == Replace(name) IN
       IF key \in DOMAIN _config_artifact_arguments
       THEN /\ aresult' = ACall("add_artifact_argument", name, "AssertionError", None)
            /\ UNCHANGED <<_config_artifact_arguments, aparser>>
       ELSE /\ aparser' = Put(Put(aparser, Dest(Option(name, "artifact")), default),
                              Dest(Option(name, "path")), None)
            /\ _config_artifact_arguments' =
                   Put(_config_artifact_arguments, key, [name |-> name])
            /\ aresult' = ACall("add_artifact_argument", name, "", None)
    /\ UNCHANGED <<_config_artifacts, aconfig, agiven, aphase>>

\* the value parse_args stores at a dest: the value of the option when it is
\* given, the default of the argument otherwise
Parsed(give, d) ==
    IF \E k \in DOMAIN give :
          /\ give[k] = "artifact"
          /\ d = Dest(Option(_config_artifact_arguments[k].name, "artifact"))
    THEN Some(CliArtifact)
    ELSE IF \E k \in DOMAIN give :
          /\ give[k] = "path"
          /\ d = Dest(Option(_config_artifact_arguments[k].name, "path"))
    THEN Some(CliPath)
    ELSE aparser[d]

\* parse_args: of the two options of a mutually exclusive group the command
\* line gives at most one
ArtifactParseArgs(give) ==
    /\ aphase = "configure"
    /\ aconfig' = [d \in DOMAIN aparser |-> Parsed(give, d)]
    /\ agiven' = give
    /\ aphase' = "parsed"
    /\ aresult' = ACall("parse_args", <<>>, "", None)
    /\ UNCHANGED <<_config_artifact_arguments, _config_artifacts, aparser>>

\* the result of artifact_argument_path(name) once the path is stored at key,
\* lines 200-205: the return statement looks the path up at name
Stored(name, key, path) ==
    LET new == Put(_config_artifacts, key, path) IN
    /\ _config_artifacts' = new
    /\ aresult' = IF name \in DOMAIN new
                  THEN ACall("artifact_argument_path", name, "", Some(new[name]))
                  ELSE ACall("artifact_argument_path", name, "KeyError", None)

\* an exception leaves artifact_argument_path(name)
Fails(name, exc) ==
    /\ aresult' = ACall("artifact_argument_path", name, exc, None)
    /\ UNCHANGED _config_artifacts

\* artifact_argument_path(name), lines 189-205; use_artifact and download()
\* return
ArtifactArgumentPath(name) ==
    /\ aphase = "parsed"
    /\ LET key == Replace(name) IN
       IF key \notin DOMAIN _config_artifact_arguments
       THEN Fails(name, "AssertionError")
       ELSE IF name \in DOMAIN _config_artifacts
       THEN /\ aresult' = ACall("artifact_argument_path", name, "",
                                Some(_config_artifacts[name]))
            /\ UNCHANGED _config_artifacts
       ELSE IF ~HasAttr(Attr(name, "artifact"))
       THEN Fails(name, "AttributeError")
       ELSE IF aconfig[Attr(name, "artifact")] # None
       THEN IF ~HasAttr(Attr(key, "artifact"))
            THEN Fails(name, "AttributeError")
            ELSE Stored(name, key, Path(Download(aconfig[Attr(key, "artifact")].v)))
       ELSE IF ~HasAttr(Attr(name, "path"))
       THEN Fails(name, "AttributeError")
       ELSE IF aconfig[Attr(name, "path")] # None
       THEN IF ~HasAttr(Attr(key, "path"))
            THEN Fails(name, "AttributeError")
            ELSE Stored(name, key, Path(aconfig[Attr(key, "path")].v))
       ELSE Fails(name, "RuntimeError")
    /\ UNCHANGED <<_config_artifact_arguments, aparser, aconfig, agiven, aphase>>

(***************************************************************************)
(* The specifications                                                      *)

(***************************************************************************)
vars == <<scriptVars, wandbVars, lazyVars, artifactVars>>

\* the scripting lifecycle, with an untouched Wandb module
Init == ScriptInit /\ WandbInit /\ environ = <<>> /\ LazyInit /\ ArtifactInit

Next ==
    \/ /\ \E p \in UserParsers \cup {"None"} : CallInit(p)
       /\ UNCHANGED <<wandbVars, lazyVars, artifactVars>>
    \/ /\ \E m \in ModuleNames : CallUse(m)
       /\ UNCHANGED <<wandbVars, lazyVars, artifactVars>>
    \/ /\ \E p \in UserParsers \cup {"DefaultArg"} : CallRun(p)
       /\ UNCHANGED <<wandbVars, lazyVars, artifactVars>>
    \/ /\ DefineArguments
       /\ UNCHANGED <<wandbVars, lazyVars, artifactVars>>
    \/ /\ ParseConfig
       /\ UNCHANGED <<wandbVars, lazyVars, artifactVars>>
    \/ /\ InitModules
       /\ UNCHANGED <<wandbVars, lazyVars, artifactVars>>
    \/ /\ StartModules
       /\ UNCHANGED <<wandbVars, lazyVars, artifactVars>>
    \/ /\ SpawnJob
       /\ UNCHANGED <<wandbVars, lazyVars, artifactVars>>
    \/ /\ PollJob
       /\ UNCHANGED <<wandbVars, lazyVars, artifactVars>>
    \/ /\ SetStopping
       /\ UNCHANGED <<wandbVars, lazyVars, artifactVars>>
    \/ /\ JoinJob
       /\ UNCHANGED <<wandbVars, lazyVars, artifactVars>>
    \/ /\ StopModules
       /\ UNCHANGED <<wandbVars, lazyVars, artifactVars>>
    \/ /\ FinishModules
       /\ UNCHANGED <<wandbVars, lazyVars, artifactVars>>
    \/ /\ SetFinished
       /\ UNCHANGED <<wandbVars, lazyVars, artifactVars>>
    \/ /\ \E t \in 1..Len(threads) : JobEnds(t)
       /\ UNCHANGED <<wandbVars, lazyVars, artifactVars>>

Spec == Init /\ [][Next]_vars

\* the configuration and the lifecycle of the Wandb module, with the scripting
\* globals untouched
InitWandb == ScriptInit /\ WandbInit /\ LazyInit /\ ArtifactInit

NextWandb ==
    \/ /\ \E flag \in BOOLEAN : ApiOnly(flag)
       /\ UNCHANGED <<scriptVars, lazyVars, artifactVars>>
    \/ /\ \E profile \in Profiles : Defaults(profile)
       /\ UNCHANGED <<scriptVars, lazyVars, artifactVars>>
    \/ /\ \E flag \in BOOLEAN : Resumeable(flag)
       /\ UNCHANGED <<scriptVars, lazyVars, artifactVars>>
    \/ /\ WandbDefineArguments
       /\ UNCHANGED <<scriptVars, lazyVars, artifactVars>>
    \/ /\ \E profile \in Profiles, resume \in BOOLEAN :
            /\ resume => "wandb_resume" \in wargs
            /\ WandbParseArgs(profile, resume)
       /\ UNCHANGED <<scriptVars, lazyVars, artifactVars>>
    \/ /\ WandbStart
       /\ UNCHANGED <<scriptVars, lazyVars, artifactVars>>
    \/ /\ WandbStop
       /\ UNCHANGED <<scriptVars, lazyVars, artifactVars>>

SpecWandb == InitWandb /\ [][NextWandb]_vars

\* the persistent objects of a Wandb module that is given no run parameters
InitPersistent == ScriptInit /\ WandbInit /\ environ = <<>> /\ LazyInit /\ ArtifactInit

NextPersistent ==
    \/ /\ \E flag \in BOOLEAN : ApiOnly(flag)
       /\ UNCHANGED <<scriptVars, lazyVars, artifactVars>>
    \/ /\ WandbDefineArguments
       /\ UNCHANGED <<scriptVars, lazyVars, artifactVars>>
    \/ /\ WandbParseArgs("none", FALSE)
       /\ UNCHANGED <<scriptVars, lazyVars, artifactVars>>
    \/ /\ WandbStart
       /\ UNCHANGED <<scriptVars, lazyVars, artifactVars>>
    \/ /\ CreatePersistentObject
       /\ UNCHANGED <<scriptVars, lazyVars, artifactVars>>
    \/ /\ \E i \in 1..Len(_persistent_objects), returnsObject \in BOOLEAN :
            AccessInstance(i, returnsObject)
       /\ UNCHANGED <<scriptVars, lazyVars, artifactVars>>
    \/ /\ WandbStop
       /\ UNCHANGED <<scriptVars, lazyVars, artifactVars>>
    \/ /\ AccessRun
       /\ UNCHANGED <<scriptVars, lazyVars, artifactVars>>
    \/ /\ \E disabled \in BOOLEAN : UseArtifact(disabled)
       /\ UNCHANGED <<scriptVars, lazyVars, artifactVars>>

SpecPersistent == InitPersistent /\ [][NextPersistent]_vars

\* the lazy modules, with everything else untouched
InitLazy == ScriptInit /\ WandbInit /\ environ = <<>> /\ LazyInit /\ ArtifactInit

NextLazy ==
    \/ /\ \E n \in LazyNames, attr \in Attributes, importerOk \in BOOLEAN :
            GetAttr(n, attr, importerOk)
       /\ UNCHANGED <<scriptVars, wandbVars, artifactVars>>

SpecLazy == InitLazy /\ [][NextLazy]_vars

\* the artifact arguments, with everything else untouched
InitArtifact == ScriptInit /\ WandbInit /\ environ = <<>> /\ LazyInit /\ ArtifactInit

NextArtifact ==
    \/ /\ \E name \in ArtifactNames, default \in {None, Some(DefaultArtifact)} :
            AddArtifactArgument(name, default)
       /\ UNCHANGED <<scriptVars, wandbVars, lazyVars>>
    \/ /\ \E give \in [DOMAIN _config_artifact_arguments -> {"none", "artifact", "path"}] :
            ArtifactParseArgs(give)
       /\ UNCHANGED <<scriptVars, wandbVars, lazyVars>>
    \/ /\ \E name \in ArtifactNames : ArtifactArgumentPath(name)
       /\ UNCHANGED <<scriptVars, wandbVars, lazyVars>>

SpecArtifact == InitArtifact /\ [][NextArtifact]_vars

(***************************************************************************)
(* Claims about dl_utilities.scripting                                     *)
(***************************************************************************)
\* the events of a phase over the used modules, in the order of __modules
PhaseEvents(ph) == [i \in 1..Len(modules) |-> <<ph, modules[i]>>]

\* the phase and the module of each logged event
Strip(l) == [i \in 1..Len(l) |-> <<l[i].ph, l[i].m>>]

IsPrefix(a, b) == Len(a) <= Len(b) /\ SubSeq(b, 1, Len(a)) = a

\* the callbacks of a whole run(): the job is invoked, then it ends
FullLifecycle ==
    PhaseEvents("define") \o PhaseEvents("init") \o PhaseEvents("start")
    \o <<<<"job", "job">>, <<"job", "job">>>>
    \o PhaseEvents("stop") \o PhaseEvents("finish")

\* no exception reached the main thread during the latest run()
Uninterrupted ==
    \A i \in 1..Len(log) : log[i].out \in {"ok", "invoked", "returned", "raised"}

\* C1: in a run() that no exception interrupts, the callbacks are invoked in the
\* order define-arguments, init, start, the job, stop, finish, each phase over
\* all used modules before the next begins and the job ended before the first
\* _stop, and a run() that has returned invoked each callback exactly once.
C1_LifecycleOrder ==
    (Uninterrupted /\ (pc # "top" \/ result = "finished")) =>
        /\ IsPrefix(Strip(log), FullLifecycle)
        /\ (result = "finished" => Strip(log) = FullLifecycle)

C1_Witness ==
    /\ result = "finished"
    /\ Uninterrupted
    /\ Len(modules) = 3
    /\ Len(log) = 17

\* C2: a call of run() in a state other than Idle raises 'A job can only be run
\* once.' and changes nothing: no callback is logged, no thread is created and
\* the state, the modules and the config are as before.
C2_RunOnlyOnce ==
    [][((\E p \in UserParsers \cup {"DefaultArg"} : CallRun(p)) /\ state # "Idle")
        => /\ result' = "Exception: A job can only be run once."
           /\ UNCHANGED <<state, modules, config, job_thread, threads, log, pc,
                          argument_parser>>]_vars

C2_Witness ==
    /\ result = "Exception: A job can only be run once."
    /\ state = "Finished"
    /\ Len(modules) > 0
    /\ config # "None"

AliveThreads == {t \in 1..Len(threads) : threads[t].alive}

\* C3: at most one job thread exists at a time.
C3_SingleJobThread == Cardinality(AliveThreads) <= 1

\* C4: no _stop or _finish callback is invoked while the thread of the job of
\* this run() is alive, and __job_thread has been joined and cleared by then.
C4_StopWaitsForJob ==
    pc \in {"stop", "finish", "setfinished"} =>
        /\ job_thread = 0
        /\ \A t \in 1..Len(threads) : threads[t].run = nruns => ~threads[t].alive

\* a _stop callback is about to be invoked after the polling loop was left by a
\* KeyboardInterrupt
C4_Witness ==
    /\ pc = "stop"
    /\ idx <= Len(modules)
    /\ \E i \in 1..Len(log) : log[i].ph = "poll" /\ log[i].out = "KeyboardInterrupt"
    /\ \E t \in 1..Len(threads) : threads[t].run = nruns

\* an exception that the try block of run() catches
IsCaught(e) ==
    /\ e.ph \in {"init", "start", "poll"}
    /\ e.out \in {"KeyboardInterrupt", "EarlyStop"}

\* the events of l after position i, without the end of the job
RECURSIVE CallbacksAfter(_, _)
CallbacksAfter(l, i) ==
    IF i >= Len(l) THEN <<>>
    ELSE IF l[i + 1].ph = "job" THEN CallbacksAfter(l, i + 1)
    ELSE <<<<l[i + 1].ph, l[i + 1].m, l[i + 1].out>>>> \o CallbacksAfter(l, i + 1)

StopThenFinish ==
    [i \in 1..Len(modules) |-> <<"stop", modules[i], "ok">>]
    \o [i \in 1..Len(modules) |-> <<"finish", modules[i], "ok">>]

\* C5: a KeyboardInterrupt or EarlyStop raised in the init phase, in the start
\* phase or while polling does not leave run(): run() goes on with the stop
\* phase, and when it returns it has invoked _stop on every used module, then
\* _finish on every used module, and the state is Finished.
C5_InterruptStillStops ==
    \A i \in 1..Len(log) : IsCaught(log[i]) =>
        /\ (i = Len(log) => (pc \in {"setstop", "join", "stop", "finish", "setfinished"}
                             \/ state = "Finished"))
        /\ (result = "finished" =>
                /\ CallbacksAfter(log, i) = StopThenFinish
                /\ state = "Finished")

C5_Witness ==
    /\ result = "finished"
    /\ state = "Finished"
    /\ Len(modules) >= 2
    /\ \E i \in 1..Len(log) : IsCaught(log[i]) /\ log[i].ph = "start"

\* C13: at every point during run(job, argument_parser=P), argument_parser()
\* returns P, the parser on which the arguments are defined and from which the
\* config is parsed.
C13_ArgumentParserOfRun ==
    pc # "top" => argument_parser_call = runParser

\* C14: in every state in which is_running() is true, config() returns the
\* parsed configuration without raising, and in every state in which no job is
\* running (Idle, or Finished) it raises 'No job is running.'.
C14_ConfigWhileRunning ==
    /\ (is_running =>
            /\ config_call # "Exception: No job is running."
            /\ config_call = ParseArgs(runParser))
    /\ ((pc = "top" /\ state \in {"Idle", "Finished"}) =>
            config_call = "Exception: No job is running.")

\* the main thread is inside run() and has not reached line 123
BeforeStopPhase == pc \in {"define", "parse", "init", "start", "spawn", "poll",
                           "setstop"}

\* the main thread is inside run(), in __stop or __finish or about to return
InStopPhase == pc \in {"join", "stop", "finish", "setfinished"}

JobRaised ==
    \E i, j \in 1..Len(log) :
        /\ i < j
        /\ log[i] = Event("job", "job", "invoked")
        /\ log[j] = Event("job", "job", "raised")

\* C16: an exception raised by the job on its thread does not leave run(): the
\* thread is dead, a polling step that finds it dead goes on to the stop phase,
\* and unless a callback raises, run() invokes _stop and _finish on every used
\* module and returns in state Finished, as for a job that returned.
C16_JobExceptionContained ==
    /\ []((JobRaised /\ Uninterrupted) =>
            /\ \A t \in 1..Len(threads) :
                  threads[t].run = nruns => ~threads[t].alive
            /\ (pc # "top" =>
                  /\ result = "running"
                  /\ (pc \in {"poll", "setstop"} \/ InStopPhase))
            /\ (pc = "top" =>
                  /\ result \in {"finished",
                                 "Exception: A job can only be run once."}
                  /\ state = "Finished"
                  /\ Strip(log) = FullLifecycle))
    /\ [][(PollJob /\ ~is_alive(job_thread) /\ log' = log) => pc' = "setstop"]_vars

\* run() has returned after the job raised, with two modules stopped and
\* finished
C16_Witness ==
    /\ JobRaised
    /\ Uninterrupted
    /\ result = "finished"
    /\ state = "Finished"
    /\ Len(modules) >= 2

(***************************************************************************)
(* Claims about the Wandb module and PersistentObject                      *)
(***************************************************************************)
Objects == 1..Len(_persistent_objects)

\* C6, as claimed: nothing is created or loaded before the first access; from
\* the first access on, exactly one of load() (resumed run) and create()
\* (otherwise) has been called, exactly once.
C6_CreateOrLoadExactlyOnce ==
    \A i \in Objects :
        LET o == _persistent_objects[i] IN
        /\ (o.accesses = 0 => o.creates + o.loads = 0)
        /\ (o.accesses > 0 =>
                /\ o.creates + o.loads = 1
                /\ (_run.v.resumed => o.loads = 1)
                /\ (~_run.v.resumed => o.creates = 1))

\* C6, amended: nothing is created or loaded before instance is accessed; an
\* access that finds no cached instance calls load() if the run is resumed and
\* create() otherwise, exactly one of the two and once, and returns its result;
\* once that result is an object other than None, every later access returns
\* this same object and calls neither create() nor load() again.
C6_LazyCreateOrLoad ==
    /\ [](\A i \in Objects :
            LET o == _persistent_objects[i] IN
            /\ (o.accesses = 0 => o.creates + o.loads = 0 /\ o._instance = None)
            /\ o.creates + o.loads <= o.accesses
            /\ (o.loads > 0 => _run # None /\ _run.v.resumed)
            /\ (o.creates > 0 => _run # None /\ ~_run.v.resumed))
    /\ [][\A i \in Objects :
            LET o == _persistent_objects[i]
                o2 == _persistent_objects'[i]
            IN
            /\ (o._instance # None =>
                    /\ o2._instance = o._instance
                    /\ o2.creates = o.creates
                    /\ o2.loads = o.loads
                    /\ (o2.accesses # o.accesses =>
                            wresult' = Returned(o._instance)))
            /\ (o._instance = None /\ o2.accesses # o.accesses =>
                    /\ o2.creates + o2.loads = o.creates + o.loads + 1
                    /\ o2.loads = o.loads + (IF _run.v.resumed THEN 1 ELSE 0)
                    /\ wresult' = Returned(o2._instance))]_vars

\* an object whose instance was loaded from a resumed run at the first access
\* and served from the cache at the two accesses after it
C6_Witness ==
    \E i \in Objects :
        LET o == _persistent_objects[i] IN
        /\ o.accesses = 3
        /\ o.loads = 1
        /\ o.creates = 0
        /\ o._instance = Instance("loaded", i, 1)
        /\ wresult = Returned(o._instance)

Positions(e) == {j \in 1..Len(wlog) : wlog[j] = e}

\* C7: when _stop has run with a run, save() was called exactly once on every
\* registered object that holds an instance and on no other object, every
\* save() before the upload of the persistent_objects files, and the upload
\* before the run was finished.
C7_SaveUploadFinish ==
    (wphase = "stopped" /\ _run # None) =>
        /\ \A i \in Objects :
              LET o == _persistent_objects[i] IN
              /\ o.saves = Cardinality(Positions(<<"save", i>>))
              /\ o.saves = IF o._instance # None THEN 1 ELSE 0
        /\ Cardinality(Positions(<<"upload", 0>>)) = 1
        /\ Cardinality(Positions(<<"finish", 0>>)) = 1
        /\ \A j \in 1..Len(wlog) :
              /\ (wlog[j][1] = "save" =>
                     \A u \in Positions(<<"upload", 0>>) : j < u)
              /\ (wlog[j][1] = "upload" =>
                     \A f \in Positions(<<"finish", 0>>) : j < f)
        /\ _run.v.finished

\* stopped with one object that holds an instance and one that does not
C7_Witness ==
    /\ wphase = "stopped"
    /\ _run # None
    /\ Len(_persistent_objects) = 2
    /\ _persistent_objects[1]._instance = None
    /\ _persistent_objects[2]._instance # None
    /\ _persistent_objects[2].saves = 1

\* C8: on a module that is not API only, can_resume is the flag of the latest
\* resumeable() call; after resumeable(True) the argument --wandb-resume is
\* registered and a given resume id starts the run with resume='must' and that
\* id; after resumeable(False) the run is started with resume='never'.
C8_ResumeableSetsCanResume ==
    (lastFlag # None /\ ~_api_only) =>
        /\ can_resume = lastFlag.v
        /\ (wphase # "configure" => (("wandb_resume" \in wargs) <=> lastFlag.v))
        /\ (_run # None =>
               IF lastFlag.v /\ wconfig["wandb_resume"].some
               THEN _run.v.resume = "must" /\ _run.v.id = wconfig["wandb_resume"]
               ELSE _run.v.resume = "never")

\* C10: each run parameter is the command-line value when that is not None,
\* otherwise the environment variable WANDB_<KEY> when it is set (split at the
\* commas for the tags), otherwise the value given to defaults(), None if none.
C10_ParameterPrecedence ==
    _run # None =>
        \A k \in ParamKeys :
            LET given == _run.v.params[k]
                cli == wconfig[k]
                name == Upper(k)
            IN
            /\ (cli # None => given = cli)
            /\ (cli = None /\ name \in DOMAIN environ =>
                    given = Some(IF k = "wandb_tags"
                                 THEN Split(environ[name]) ELSE environ[name]))
            /\ (cli = None /\ name \notin DOMAIN environ => given = _defaults[k])

\* a run started with the name from the command line, the project from the
\* environment, the tags split from an empty environment variable and the
\* entity from defaults()
C10_Witness ==
    /\ _run # None
    /\ _run.v.params["wandb_name"] = Some(<<"c", "wandb_name">>)
    /\ wconfig["wandb_project"] = None
    /\ _run.v.params["wandb_project"] = Some(<<"e", "wandb_project">>)
    /\ wconfig["wandb_dir"] = None
    /\ _run.v.params["wandb_dir"] = Some(<<>>)
    /\ wconfig["wandb_entity"] = None
    /\ "WANDB_ENTITY" \notin DOMAIN environ
    /\ _run.v.params["wandb_entity"] = Some(<<"d", "wandb_entity">>)

\* C11: on a module that is API only no W&B run ever exists: no --wandb-*
\* argument is registered, _start creates no run, _stop saves nothing, uploads
\* nothing and finishes no run, no persistent object gets an instance, every
\* read of the run property raises RuntimeError, and use_artifact returns the
\* artifact of the W&B API.
C11_ApiOnlyNoRun ==
    /\ [](_api_only =>
            /\ wargs = {}
            /\ _run = None
            /\ wlog = <<>>
            /\ \A i \in Objects :
                  LET o == _persistent_objects[i] IN
                  /\ o.saves = 0
                  /\ o.creates + o.loads = 0
                  /\ o._instance = None)
    /\ [][(_api_only /\ AccessRun) => wresult' = Raised("RuntimeError")]_vars
    /\ [][(_api_only /\ \E disabled \in BOOLEAN : UseArtifact(disabled))
            => wresult' = Returned(Artifact("api"))]_vars

\* an API-only module after _stop, with a registered persistent object, whose
\* use_artifact has just been served by the API
C11_Witness ==
    /\ _api_only
    /\ wphase = "stopped"
    /\ Len(_persistent_objects) = 2
    /\ wresult = Returned(Artifact("api"))

(***************************************************************************)
(* Claims about the artifact arguments                                     *)
(***************************************************************************)
\* the names that add_artifact_argument has registered
RegisteredNames ==
    {_config_artifact_arguments[k].name : k \in DOMAIN _config_artifact_arguments}

\* C12: artifact_argument_path(name), for a name registered with
\* add_artifact_argument, returns the local path when --{name}-path was given,
\* the download path of the artifact when --{name}-artifact was given, and
\* raises RuntimeError when neither was given; for a name that was never
\* registered it fails its assertion.
C12_ArtifactArgumentPath ==
    aresult.call = "artifact_argument_path" =>
        LET name == aresult.name
            key == Replace(name)
        IN
        IF name \in RegisteredNames
        THEN /\ (agiven[key] = "path" =>
                    aresult.raised = "" /\ aresult.value = Some(Path(CliPath)))
             /\ (agiven[key] = "artifact" =>
                    /\ aresult.raised = ""
                    /\ aresult.value = Some(Path(Download(CliArtifact))))
             /\ (agiven[key] = "none" => aresult.raised = "RuntimeError")
        ELSE aresult.raised = "AssertionError"

(***************************************************************************)
(* Claims about LazyModule                                                 *)
(***************************************************************************)
\* C9: the importer is not invoked before the first access to an attribute
\* that is not on the blacklist; the module is not loaded before that access;
\* such an access to an unloaded module invokes the importer once and the module
\* is loaded after it if the importer succeeds; a loaded module stays loaded and
\* its importer is not invoked again; an access to a blacklisted attribute of an
\* unloaded module raises AttributeError, invokes no importer and leaves the
\* module unloaded.
C9_LazyImportOnce ==
    /\ [](\A n \in LazyNames :
            /\ (~lazy[n].accessed => lazy[n].imports = 0 /\ ~is_loaded(n))
            /\ (is_loaded(n) => lazy[n].imports >= 1))
    /\ [][\A n \in LazyNames :
            /\ (is_loaded(n) =>
                    /\ lazy'[n].module = lazy[n].module
                    /\ lazy'[n].imports = lazy[n].imports)
            /\ ((~is_loaded(n) /\ lresult'.name = n
                    /\ (lresult' # lresult \/ lazy' # lazy)) =>
                  IF lresult'.attr \in _lazy_attribute_blacklist
                  THEN /\ lresult'.raised = "AttributeError"
                       /\ lazy'[n].imports = lazy[n].imports
                       /\ ~is_loaded(n)'
                  ELSE /\ lazy'[n].imports = lazy[n].imports + 1
                       /\ (is_loaded(n)' <=> lresult'.raised # "ImportError"))]_vars

\* a module that was loaded by the second invocation of its importer and then
\* asked for a blacklisted attribute, while another module is still unloaded
\* after an access to a blacklisted attribute
C9_Witness ==
    /\ is_loaded("rng")
    /\ lazy["rng"].imports = 2
    /\ ~is_loaded("tensorflow")
    /\ lazy["tensorflow"].imports = 0
    /\ lresult.name = "tensorflow"
    /\ lresult.attr = "_repr_html_"
    /\ lresult.raised = "AttributeError"

====
